---- MODULE Spec2Model ----
(***************************************************************************)
(* LoRaManager (src/src/LoRaManager.cpp, src/include/LoRaManager.h): the   *)
(* session state machine of a LoRaWAN end device on top of RadioLib.       *)
(*                                                                         *)
(* The radio library is outside the repository.  Each call into it         *)
(* (radio->begin, node->activateOTAA, node->sendReceive, node->check,      *)
(* node->readEvent) is a step of the model whose result is chosen          *)
(* nondeterministically.  Result codes are modelled by name: the code      *)
(* only compares them with named constants and with 0, so a code is one    *)
(* of the names below, "RX1"/"RX2" standing for the positive window        *)
(* numbers and "ERR_OTHER" for any negative code that has no name here.    *)
(* RadioLib's constants are pairwise different.  The macro                 *)
(* RADIOLIB_LORAWAN_NO_DOWNLINK is RadioLib's where RadioLib defines it    *)
(* (the code named NO_DOWNLINK below); where it does not, lines 24-26      *)
(* define it as -5, which is RADIOLIB_ERR_TX_TIMEOUT.  The variable        *)
(* noDownlink holds the value the macro has in the build.                  *)
(*                                                                         *)
(* joinNetwork and sendData block inside delay() and the radio calls, so   *)
(* they are modelled as a sequence of steps over a program counter; the    *)
(* other public operations make no blocking call and are single steps.     *)
(***************************************************************************)
EXTENDS Integers, Sequences, FiniteSets, TLC

(* ------------------------------------------------------------------ *)
(* Result codes                                                        *)
(* ------------------------------------------------------------------ *)
ERR_NONE == "ERR_NONE"
NEW_SESSION == "NEW_SESSION"
ERR_TX_TIMEOUT == "ERR_TX_TIMEOUT"
ERR_NETWORK_NOT_JOINED == "ERR_NETWORK_NOT_JOINED"
ERR_NO_CHANNEL_AVAILABLE == "ERR_NO_CHANNEL_AVAILABLE"
NO_DOWNLINK == "NO_DOWNLINK"
ERR_INVALID_STATE == "ERR_INVALID_STATE"
ERR_INVALID_INPUT == "ERR_INVALID_INPUT"
ERR_OTHER == "ERR_OTHER"
RX1 == "RX1"
RX2 == "RX2"

\* state > 0 : sendReceive reports the receive window of a downlink
IsPositive(state) == state \in {RX1, RX2}

\* what node->activateOTAA() may return
OtaaCodes == {ERR_NONE, NEW_SESSION, ERR_NETWORK_NOT_JOINED, ERR_TX_TIMEOUT, ERR_OTHER}

\* what node->sendReceive() may return
SendCodes == {ERR_NONE, RX1, RX2, NO_DOWNLINK, ERR_TX_TIMEOUT,
              ERR_NETWORK_NOT_JOINED, ERR_NO_CHANNEL_AVAILABLE, ERR_OTHER}

\* what node->sendReceive() returns for the confirmation uplink of
\* joinNetwork, whose result is only logged: a success without and with
\* downlink, and a failure
ConfirmCodes == {ERR_NONE, RX1, ERR_TX_TIMEOUT}

\* what radio->begin() may return
BeginCodes == {ERR_NONE, ERR_OTHER}

\* what node->check() may return
CheckCodes == {ERR_NONE, NO_DOWNLINK, ERR_TX_TIMEOUT, ERR_NETWORK_NOT_JOINED, ERR_OTHER}

\* RADIOLIB_LORAWAN_NO_DOWNLINK: RadioLib's value, or the -5 of lines 24-26
NoDownlinkValues == {NO_DOWNLINK, ERR_TX_TIMEOUT}

(* ------------------------------------------------------------------ *)
(* Program constants                                                   *)
(* ------------------------------------------------------------------ *)
BAND_TYPE_US915 == 1
BAND_TYPE_EU868 == 2
BAND_TYPE_OTHER == 0

DEVICE_CLASS_A == "A"
DEVICE_CLASS_B == "B"
DEVICE_CLASS_C == "C"

BEACON_STATE_IDLE == 0
BEACON_STATE_ACQUISITION == 1
BEACON_STATE_LOCKED == 2
BEACON_STATE_LOST == 3

\* joinNetwork: const uint8_t maxAttempts = 5
JoinMaxAttemptsShort == 5 - 1
JoinMaxAttemptsLong == 5 + 1
JoinMaxAttempts == 5

\* joinNetwork: uint16_t backoffDelay = 1000
InitialBackoff == 1000

\* joinNetwork: if (backoffDelay > 30000) backoffDelay = 30000
BackoffCap == 30000

\* sendData: const uint8_t maxAttempts = 3
SendMaxAttemptsLong == 3 + 1
SendMaxAttempts == 3

\* sendData: delay(3000)
SendRetryDelay == 3000

\* sendData: if (consecutiveTransmitErrors >= 3)
RejoinThreshold == 3

\* widths of uint8_t and uint16_t; the greatest valid ping slot periodicity
U8 == 256
U16 == 65536
MaxPeriodicity == 7

(* ------------------------------------------------------------------ *)
(* Bounds of the model                                                 *)
(* ------------------------------------------------------------------ *)
\* number of public operations the host starts in one behaviour
MaxOps == 3

\* band numbers the manager is constructed with (0: none, 1: EU868, 2: US915)
BandNums == {0, 1, 2}

\* sub-bands the manager is constructed with
SubBands == {2}

\* payload lengths passed to sendData
PayloadLens == {0, 1}

\* target classes passed to setDeviceClass ("D": not a device class)
ClassArgs == {"A", "B", "C", "D"}

\* the periodicity argument of setPingSlotPeriodicity (uint8_t)
PingArgs == {0, 1, 2, 3, 4, 5, 6, 7, 8, 255}

\* what random(500) returns: the least and the greatest value
PingOffsets == {0, 499}

\* between the calls of the host the clock advances in steps of TickMs.
\* millis() goes on advancing for ever; it is followed for MaxTime
\* milliseconds after the first call, as the calls of the host are followed up
\* to MaxOps of them
TickMs == 1000
MaxTime == 2000

\* memset(appKey, 0, sizeof(appKey)) of the constructor
KeyLen == 16
ZeroKey == [i \in 1..KeyLen |-> 0]

\* outerObs while no sendData call waits for its callback
NoObs == <<>>

VARIABLES
  \* ---- LoRaManager fields
  radio,                      \* radio != nullptr
  node,                       \* node != nullptr
  bandNum,                    \* freqBand.bandNum
  subBand,
  isJoined,
  lastErrorCode,
  consecutiveTransmitErrors,  \* uint8_t
  deviceClass,
  beaconState,
  continuousReception,
  \* ---- position and locals of the running joinNetwork / sendData
  pc,            \* "idle", "join_otaa", "join_confirm", "join_backoff", "send_tx",
                 \* "send_wait", "send_callback"
  caller,        \* who called the running joinNetwork: "host" or "sendData"
  jAttempt,      \* joinNetwork: attemptCount
  backoffDelay,  \* joinNetwork: backoffDelay (uint16_t)
  sAttempt,      \* sendData: attemptCount
  \* ---- what the host observes of the operation it started last
  nOps,          \* operations started so far
  lastOp,        \* the operation started last
  lastRet,       \* its return value (meaningful when pc = "idle")
  preJoined,     \* isJoined when it was called
  preClass,      \* deviceClass when it was called
  argData,       \* sendData: data != nullptr (false for the other operations)
  argLen,        \* sendData: the len argument (0 for the other operations)
  argClass,      \* setDeviceClass: the deviceClass argument ("-" for the other operations)
  argConfirmed,  \* sendData: the confirmed argument (false for the other operations)
  confirmState,  \* what the last confirmation uplink returned ("none": none sent)
  otaaCalls,     \* node->activateOTAA() calls it made
  txCalls,       \* node->sendReceive() calls it made for the payload
  confirmCalls,  \* 1-byte confirmation uplinks it sent
  joinCalls,     \* joinNetwork() calls sendData made
  joinWaits,     \* delay() arguments of the joinNetwork that ran last, in order
  txWaits,       \* delay() arguments of sendData, in order
  \* ---- link metrics and callbacks
  lastRssi,
  lastSnr,
  downlinkCallback,     \* downlinkCallback != nullptr
  beaconCallback,       \* beaconCallback != nullptr
  \* ---- Class B timing
  now,                  \* what millis() returns
  lastBeaconRxTime,
  lastBeaconTimestamp,
  pingSlotPeriodicity,
  nextPingSlotTime,
  \* ---- more of what the host observes of the operation it started last
  downlinkCalls,   \* times it invoked the downlink callback
  downlinkLen,     \* length of the downlink its sendReceive delivered (0: none)
  beaconCalls,     \* times it invoked the beacon callback
  argPeriodicity,  \* setPingSlotPeriodicity: the periodicity argument
  \* ---- credentials
  joinEUI,
  devEUI,
  appKey,          \* uint8_t appKey[16], as a sequence of 16 bytes
  nwkKey,          \* uint8_t nwkKey[16], as a sequence of 16 bytes
  argAppKeyHex,    \* appKeyHex of the setCredentialsHex called last, a sequence of characters
  argNwkKeyHex,    \* nwkKeyHex of the setCredentialsHex called last, a sequence of characters
  \* ---- fixed while a behaviour lasts
  noDownlink,      \* the value of RADIOLIB_LORAWAN_NO_DOWNLINK in the build
  startTime,       \* what millis() returned when the calls that are followed began
  \* ---- a sendData call that waits for its downlink callback to return
  suspended,       \* a sendData call is at line 488, inside downlinkCallback
  outerObs         \* what the host observed of that call when the callback was called

mgrVars == <<radio, node, bandNum, subBand, isJoined, lastErrorCode,
             consecutiveTransmitErrors>>
classVars == <<deviceClass, beaconState, continuousReception>>
frameVars == <<pc, caller, jAttempt, backoffDelay, sAttempt>>
obsVars == <<nOps, lastOp, lastRet, preJoined, preClass, argData, argLen, argClass,
             argConfirmed, confirmState, otaaCalls, txCalls, confirmCalls,
             joinCalls, joinWaits, txWaits>>
linkVars == <<lastRssi, lastSnr, downlinkCallback, beaconCallback>>
timeVars == <<now, lastBeaconRxTime, lastBeaconTimestamp, pingSlotPeriodicity,
              nextPingSlotTime>>
callObs == <<downlinkCalls, downlinkLen, beaconCalls, argPeriodicity>>
keyVars == <<joinEUI, devEUI, appKey, nwkKey, argAppKeyHex, argNwkKeyHex>>
buildVars == <<noDownlink, startTime>>
cbVars == <<suspended, outerObs>>
vars == <<mgrVars, classVars, frameVars, obsVars, linkVars, timeVars, callObs, keyVars,
          buildVars, cbVars>>

(* ------------------------------------------------------------------ *)
(* Pure helpers                                                        *)
(* ------------------------------------------------------------------ *)

\* LoRaManager::getBandType
getBandType(bn) ==
  IF bn = 0 THEN BAND_TYPE_OTHER
  ELSE IF bn = 2 THEN BAND_TYPE_US915
  ELSE IF bn = 1 THEN BAND_TYPE_EU868
  ELSE BAND_TYPE_OTHER

\* LoRaManager::configureSubbandChannels
configureSubbandChannels(hasNode, bn, targetSubBand) ==
  IF ~hasNode THEN ERR_INVALID_STATE
  ELSE IF getBandType(bn) # BAND_TYPE_US915 THEN ERR_NONE
  ELSE IF targetSubBand < 1 \/ targetSubBand > 8 THEN ERR_INVALID_INPUT
  ELSE ERR_NONE

\* joinNetwork: uint8_t currentSubBand = attemptCount == 1 ? subBand : (1 + (attemptCount % 8))
currentSubBand(attemptCount, sb) ==
  IF attemptCount = 1 THEN sb ELSE 1 + (attemptCount % 8)

\* joinNetwork: state == RADIOLIB_ERR_NONE || state == RADIOLIB_LORAWAN_NEW_SESSION
JoinAccepted(state) == state = ERR_NONE \/ state = NEW_SESSION

\* joinNetwork: both branches after the confirmation uplink return true
\* (lines 369-379)
JoinResultNeedsConfirm(sendState) == sendState = ERR_NONE \/ IsPositive(sendState)
JoinResultAfterConfirm(sendState) == TRUE

\* joinNetwork: if (node == nullptr) return false, else go on
JoinMayStartAlways(hasNode) == TRUE
JoinMayStart(hasNode) == hasNode

\* joinNetwork: backoffDelay *= 2; if (backoffDelay > 30000) backoffDelay = 30000;
NextBackoffLinear(d) == (d + InitialBackoff) % U16
NextBackoff(d) ==
  LET doubled == (d * 2) % U16
  IN IF doubled > BackoffCap THEN BackoffCap ELSE doubled

\* sendData: state == RADIOLIB_ERR_NONE || state > 0 || state == RADIOLIB_LORAWAN_NO_DOWNLINK
SendSucceeded(state) == state = ERR_NONE \/ IsPositive(state) \/ state = noDownlink

\* sendData: shouldRetry for the failure codes that do not rejoin
ShouldRetryNever(state, attemptCount, hasNode, bn) == FALSE
ShouldRetry(state, attemptCount, hasNode, bn) ==
  IF state = ERR_TX_TIMEOUT THEN TRUE
  ELSE IF state = ERR_NO_CHANNEL_AVAILABLE THEN
    IF getBandType(bn) = BAND_TYPE_US915
    THEN configureSubbandChannels(hasNode, bn, 1 + (attemptCount % 8)) = ERR_NONE
    ELSE attemptCount < SendMaxAttempts
  ELSE attemptCount < SendMaxAttempts

\* sendData: if (data == nullptr || len == 0) return false, else go on
PayloadValid(data, len) == data /\ len # 0

\* sendData: consecutiveTransmitErrors = 0 on success
ErrorsAfterSuccessKept(n) == n
ErrorsAfterSuccess(n) == 0

\* sendData: consecutiveTransmitErrors++ (uint8_t)
BumpErrors(n) == (n + 1) % U8

\* sendData: if (shouldRetry && attemptCount < maxAttempts)
WillRetryAlways(shouldRetry, attemptCount) == attemptCount < SendMaxAttempts
WillRetry(shouldRetry, attemptCount) == shouldRetry /\ attemptCount < SendMaxAttempts

\* sendData: isJoined is left alone when the call goes on to the next attempt
JoinedBeforeRetryEscalated(joined, errors) ==
  IF errors >= RejoinThreshold THEN FALSE ELSE joined
JoinedBeforeRetry(joined, errors) == joined

\* sendData: if (consecutiveTransmitErrors >= 3) isJoined = false, when giving up
JoinedAfterGiveUp(joined, errors) ==
  IF errors >= RejoinThreshold THEN FALSE ELSE joined

(* ------------------------------------------------------------------ *)
(* Initial state: the constructor                                      *)
(* ------------------------------------------------------------------ *)
Init ==
  /\ radio = FALSE
  /\ node = FALSE
  /\ bandNum \in BandNums
  /\ subBand \in SubBands
  /\ isJoined = FALSE
  /\ lastErrorCode = ERR_NONE
  /\ consecutiveTransmitErrors = 0
  /\ deviceClass = DEVICE_CLASS_A
  /\ beaconState = BEACON_STATE_IDLE
  /\ continuousReception = FALSE
  /\ pc = "idle"
  /\ caller = "host"
  /\ jAttempt = 0
  /\ backoffDelay = 0
  /\ sAttempt = 0
  /\ nOps = 0
  /\ lastOp = "none"
  /\ lastRet = FALSE
  /\ preJoined = FALSE
  /\ preClass = DEVICE_CLASS_A
  /\ argData = FALSE
  /\ argLen = 0
  /\ argClass = "-"
  /\ argConfirmed = FALSE
  /\ confirmState = "none"
  /\ otaaCalls = 0
  /\ txCalls = 0
  /\ confirmCalls = 0
  /\ joinCalls = 0
  /\ joinWaits = <<>>
  /\ txWaits = <<>>
  /\ lastRssi = 0
  /\ lastSnr = 0
  /\ downlinkCallback = FALSE
  /\ beaconCallback = FALSE
  /\ now = 0
  /\ lastBeaconRxTime = 0
  /\ lastBeaconTimestamp = 0
  /\ pingSlotPeriodicity = 0
  /\ nextPingSlotTime = 0
  /\ downlinkCalls = 0
  /\ downlinkLen = 0
  /\ beaconCalls = 0
  /\ argPeriodicity = 0
  /\ joinEUI = 0
  /\ devEUI = 0
  /\ appKey = ZeroKey
  /\ nwkKey = ZeroKey
  /\ argAppKeyHex = <<>>
  /\ argNwkKeyHex = <<>>
  /\ noDownlink \in NoDownlinkValues
  /\ startTime = now
  /\ suspended = FALSE
  /\ outerObs = NoObs

(* ------------------------------------------------------------------ *)
(* Bookkeeping shared by the operations                                *)
(* ------------------------------------------------------------------ *)

\* pc while code of the host runs: "idle" between the calls of the host's
\* loop, "send_callback" inside the downlink callback that a sendData call
\* invoked at line 488 and that has not returned
HostPc(inCallback) == IF inCallback THEN "send_callback" ELSE "idle"
HostRuns == pc = HostPc(suspended)

\* the host starts operation op (data, len, confirmed: the arguments of
\* sendData; target: the argument of setDeviceClass)
StartArgs(op, data, len, confirmed, target) ==
  /\ HostRuns
  /\ nOps < MaxOps
  /\ nOps' = nOps + 1
  /\ lastOp' = op
  /\ preJoined' = isJoined
  /\ preClass' = deviceClass
  /\ argData' = data
  /\ argLen' = len
  /\ argClass' = target
  /\ argConfirmed' = confirmed
  /\ confirmState' = "none"
  /\ otaaCalls' = 0
  /\ txCalls' = 0
  /\ confirmCalls' = 0
  /\ joinCalls' = 0
  /\ joinWaits' = <<>>
  /\ txWaits' = <<>>

Start(op) == StartArgs(op, FALSE, 0, FALSE, "-")

\* an operation that runs in one step returns ret
Done(ret) ==
  /\ lastRet' = ret
  /\ UNCHANGED frameVars

\* an operation that invokes no callback and is not setPingSlotPeriodicity
ResetCallObs ==
  /\ downlinkCalls' = 0
  /\ downlinkLen' = 0
  /\ beaconCalls' = 0
  /\ argPeriodicity' = 0

(* ------------------------------------------------------------------ *)
(* begin                                                               *)
(* ------------------------------------------------------------------ *)
\* begin: the node pointer after radio->begin() failed (return at line 163,
\* before node is assigned)
NodeAfterFailedBeginCleared(hadNode) == FALSE
NodeAfterFailedBegin(hadNode) == hadNode

Begin ==
  /\ Start("begin")
  /\ \E state \in BeginCodes :
       /\ radio' = TRUE
       /\ IF state = ERR_NONE
          THEN /\ lastErrorCode' = ERR_NONE
               /\ node' = TRUE
               /\ Done(TRUE)
          ELSE /\ lastErrorCode' = state
               /\ node' = NodeAfterFailedBegin(node)
               /\ Done(FALSE)
  /\ UNCHANGED <<bandNum, subBand, keyVars, buildVars, cbVars, isJoined, consecutiveTransmitErrors, classVars>>
  /\ ResetCallObs
  /\ UNCHANGED <<linkVars, timeVars>>

(* ------------------------------------------------------------------ *)
(* sendData, after a failed attempt (lines 566-587)                    *)
(* ------------------------------------------------------------------ *)
\* attemptCount = att, shouldRetry is known and isJoined = joinedNow:
\* count the error, then go on to the 3000 ms wait, or give up and
\* return false.  Sets pc, sAttempt, lastRet, isJoined and
\* consecutiveTransmitErrors.
SendFailureTail(shouldRetry, att, joinedNow) ==
  LET errors == BumpErrors(consecutiveTransmitErrors)
  IN /\ consecutiveTransmitErrors' = errors
     /\ IF WillRetry(shouldRetry, att)
        THEN /\ pc' = "send_wait"
             /\ isJoined' = JoinedBeforeRetry(joinedNow, errors)
             /\ sAttempt' = att
             /\ UNCHANGED lastRet
        ELSE /\ pc' = HostPc(suspended)
             /\ isJoined' = JoinedAfterGiveUp(joinedNow, errors)
             /\ sAttempt' = 0
             /\ lastRet' = FALSE

(* ------------------------------------------------------------------ *)
(* joinNetwork                                                         *)
(* ------------------------------------------------------------------ *)

\* joinNetwork returns ret to its caller, with isJoined = joinedNow
JoinReturns(ret, joinedNow) ==
  /\ jAttempt' = 0
  /\ backoffDelay' = 0
  /\ caller' = "host"
  /\ IF caller = "host"
     THEN /\ pc' = HostPc(suspended)
          /\ lastRet' = ret
          /\ isJoined' = joinedNow
          /\ UNCHANGED <<consecutiveTransmitErrors, sAttempt>>
     ELSE \* back in sendData, line 527: shouldRetry = joinNetwork()
          SendFailureTail(ret, sAttempt, joinedNow)

\* the host calls joinNetwork (lines 306-318)
CallJoinNetwork ==
  /\ Start("joinNetwork")
  /\ IF ~JoinMayStart(node)
     THEN /\ lastErrorCode' = ERR_INVALID_STATE
          /\ Done(FALSE)
     ELSE /\ pc' = "join_otaa"
          /\ caller' = "host"
          /\ jAttempt' = 0
          /\ backoffDelay' = InitialBackoff
          /\ lastRet' = FALSE
          /\ UNCHANGED <<lastErrorCode, sAttempt>>
  /\ UNCHANGED <<radio, node, bandNum, subBand, keyVars, buildVars, cbVars, isJoined,
                 consecutiveTransmitErrors, classVars>>
  /\ ResetCallObs
  /\ UNCHANGED <<linkVars, timeVars>>

\* one pass of the while loop up to the test of activateOTAA's result
\* (lines 321-356, 380); the sub-band chosen for the attempt is only logged
JoinAttempt ==
  /\ pc = "join_otaa"
  /\ jAttempt < JoinMaxAttempts
  /\ \E state \in OtaaCodes :
       /\ jAttempt' = jAttempt + 1
       /\ otaaCalls' = otaaCalls + 1
       /\ lastErrorCode' = state
       /\ IF JoinAccepted(state)
          THEN /\ isJoined' = TRUE
               /\ pc' = "join_confirm"
          ELSE /\ isJoined' = isJoined
               /\ pc' = "join_backoff"
  /\ UNCHANGED <<radio, node, bandNum, subBand, keyVars, buildVars, cbVars, consecutiveTransmitErrors,
                 classVars, caller, backoffDelay, sAttempt,
                 nOps, lastOp, lastRet, preJoined, preClass, argData, argLen,
                 argClass, argConfirmed,
                 confirmState, txCalls, confirmCalls, joinCalls, joinWaits,
                 txWaits>>
  /\ UNCHANGED <<linkVars, timeVars, callObs>>

\* after a successful activation: the 1-byte uplink, then return true
\* whatever it returned (lines 358-379)
JoinConfirm ==
  /\ pc = "join_confirm"
  /\ \E sendState \in ConfirmCodes :
       /\ confirmCalls' = confirmCalls + 1
       /\ confirmState' = sendState
       /\ JoinReturns(JoinResultAfterConfirm(sendState), isJoined)
  /\ UNCHANGED <<radio, node, bandNum, subBand, keyVars, buildVars, cbVars, lastErrorCode, classVars,
                 nOps, lastOp, preJoined, preClass, argData, argLen,
                 argClass, argConfirmed, otaaCalls,
                 txCalls, joinCalls, joinWaits, txWaits>>
  /\ UNCHANGED <<linkVars, timeVars, callObs>>

\* joinNetwork: lastErrorCode after the last attempt failed (line 411);
\* last is the code of that attempt
ErrorAfterExhaustionKept(last) == last
ErrorAfterExhaustion(last) == ERR_NETWORK_NOT_JOINED

\* after a failed activation: delay(backoffDelay), which returns when the
\* clock has advanced by that much, double it, cap it, and test the loop
\* condition (lines 397-412)
JoinBackoff ==
  /\ pc = "join_backoff"
  /\ joinWaits' = Append(joinWaits, backoffDelay)
  /\ IF jAttempt < JoinMaxAttempts
     THEN /\ pc' = "join_otaa"
          /\ backoffDelay' = NextBackoff(backoffDelay)
          /\ UNCHANGED <<isJoined, lastErrorCode, consecutiveTransmitErrors,
                         caller, jAttempt, sAttempt, lastRet>>
     ELSE /\ lastErrorCode' = ErrorAfterExhaustion(lastErrorCode)
          /\ JoinReturns(FALSE, FALSE)
  /\ UNCHANGED <<radio, node, bandNum, subBand, keyVars, buildVars, cbVars, classVars,
                 nOps, lastOp, preJoined, preClass, argData, argLen,
                 argClass, argConfirmed, confirmState,
                 otaaCalls, txCalls, confirmCalls, joinCalls, txWaits>>
  /\ now' = now + backoffDelay
  /\ UNCHANGED <<linkVars, lastBeaconRxTime, lastBeaconTimestamp, pingSlotPeriodicity,
                 nextPingSlotTime, callObs>>

(* ------------------------------------------------------------------ *)
(* sendData                                                            *)
(* ------------------------------------------------------------------ *)

\* the host calls sendData (lines 416-445).  The rejoin at lines 437-445
\* is behind the return at lines 418-422: isJoined is true when it is
\* reached, so it never runs.
CallSendData ==
  /\ \E data \in BOOLEAN, len \in PayloadLens, confirmed \in BOOLEAN :
       /\ StartArgs("sendData", data, len, confirmed, "-")
       /\ IF ~isJoined
          THEN /\ lastErrorCode' = ERR_NETWORK_NOT_JOINED
               /\ Done(FALSE)
          ELSE IF ~PayloadValid(data, len)
          THEN /\ lastErrorCode' = ERR_INVALID_INPUT
               /\ Done(FALSE)
          ELSE /\ pc' = "send_tx"
               /\ sAttempt' = 0
               /\ lastRet' = FALSE
               /\ UNCHANGED <<lastErrorCode, caller, jAttempt, backoffDelay>>
  /\ UNCHANGED <<radio, node, bandNum, subBand, keyVars, buildVars, cbVars, isJoined,
                 consecutiveTransmitErrors, classVars>>
  /\ ResetCallObs
  /\ UNCHANGED <<linkVars, timeVars>>

\* RSSI and SNR of a received packet, as the radio or the event reports them
LinkReadings == {[rssi |-> 0 - 80, snr |-> 7]}

\* downlinkLen as sendReceive leaves it
DownlinkLens == {0, 1}

\* sendData: calls of the downlink callback after a successful sendReceive
\* (lines 468-489)
DownlinkDispatchAlways(state, len, registered) == 1
DownlinkDispatch(state, len, registered) ==
  IF IsPositive(state) /\ len > 0 /\ registered THEN 1 ELSE 0

\* what the host observes of the running call, kept while its downlink
\* callback runs operations of its own
ObsNow ==
  [lastOp |-> lastOp, preJoined |-> preJoined, preClass |-> preClass,
   argData |-> argData, argLen |-> argLen, argClass |-> argClass,
   argConfirmed |-> argConfirmed, confirmState |-> confirmState,
   otaaCalls |-> otaaCalls, txCalls |-> txCalls, confirmCalls |-> confirmCalls,
   joinCalls |-> joinCalls, joinWaits |-> joinWaits, txWaits |-> txWaits,
   downlinkCalls |-> downlinkCalls, downlinkLen |-> downlinkLen,
   beaconCalls |-> beaconCalls, argPeriodicity |-> argPeriodicity]

\* a downlink callback that is called from an operation the host started
\* may call operations of the manager; one called from such a nested
\* operation calls none (the nesting that is followed is one level deep)
CallbackMayCall(inCallback) == ~inCallback

\* sendData, lines 492-508: read RSSI and SNR, reset the counter, return true
SendReturnsTrue(reading) ==
  /\ lastRssi' = reading.rssi
  /\ lastSnr' = reading.snr
  /\ consecutiveTransmitErrors' = ErrorsAfterSuccess(consecutiveTransmitErrors)
  /\ lastRet' = TRUE

\* one pass of the retry loop up to the wait or up to the call of the
\* downlink callback (lines 448-570, 579-587)
SendAttempt ==
  /\ pc = "send_tx"
  /\ sAttempt < SendMaxAttempts
  /\ \E state \in SendCodes :
       LET att == sAttempt + 1
       IN IF SendSucceeded(state)
          THEN /\ lastErrorCode' = state
               /\ sAttempt' = 0
               /\ txCalls' = txCalls + 1
               /\ \E reading \in LinkReadings,
                     len \in (IF IsPositive(state) THEN DownlinkLens ELSE {0}) :
                    /\ downlinkLen' = len
                    /\ downlinkCalls' =
                         downlinkCalls + DownlinkDispatch(state, len, downlinkCallback)
                    /\ IF DownlinkDispatch(state, len, downlinkCallback) = 1
                            /\ CallbackMayCall(suspended)
                       THEN \* line 488: the callback runs, and lines 492-508
                            \* follow when it has returned
                            /\ pc' = "send_callback"
                            /\ suspended' = TRUE
                            /\ outerObs' = [ObsNow EXCEPT !.txCalls = txCalls + 1,
                                                          !.downlinkLen = len,
                                                          !.downlinkCalls = downlinkCalls + 1]
                            /\ lastOp' = "downlinkCallback"
                            /\ UNCHANGED <<consecutiveTransmitErrors, lastRet,
                                           lastRssi, lastSnr>>
                       ELSE /\ SendReturnsTrue(reading)
                            /\ pc' = HostPc(suspended)
                            /\ UNCHANGED <<cbVars, lastOp>>
               /\ UNCHANGED <<isJoined, caller, jAttempt, backoffDelay,
                              joinCalls, joinWaits, downlinkCallback,
                              beaconCallback, timeVars, beaconCalls, argPeriodicity>>
          ELSE IF state = ERR_NETWORK_NOT_JOINED
          THEN \* isJoined = false; joinNetwork()
               /\ joinCalls' = joinCalls + 1
               /\ joinWaits' = <<>>
               /\ txCalls' = txCalls + 1
               /\ UNCHANGED <<linkVars, timeVars, callObs, cbVars, lastOp>>
               /\ IF ~JoinMayStart(node)
                  THEN /\ lastErrorCode' = ERR_INVALID_STATE
                       /\ SendFailureTail(FALSE, att, FALSE)
                       /\ UNCHANGED <<caller, jAttempt, backoffDelay>>
                  ELSE /\ lastErrorCode' = state
                       /\ isJoined' = FALSE
                       /\ pc' = "join_otaa"
                       /\ caller' = "sendData"
                       /\ jAttempt' = 0
                       /\ backoffDelay' = InitialBackoff
                       /\ sAttempt' = att
                       /\ UNCHANGED <<consecutiveTransmitErrors, lastRet>>
          ELSE /\ lastErrorCode' = state
               /\ txCalls' = txCalls + 1
               /\ SendFailureTail(ShouldRetry(state, att, node, bandNum), att, isJoined)
               /\ UNCHANGED <<caller, jAttempt, backoffDelay, joinCalls, joinWaits,
                              linkVars, timeVars, callObs, cbVars, lastOp>>
  /\ UNCHANGED <<radio, node, bandNum, subBand, keyVars, buildVars, classVars,
                 nOps, preJoined, preClass, argData, argLen,
                 argClass, argConfirmed, confirmState,
                 otaaCalls, confirmCalls, txWaits>>

\* the downlink callback returns to sendData, which goes on at line 492:
\* RSSI and SNR are read, the counter is reset and the call returns true to
\* the host
DownlinkCallbackReturns ==
  /\ pc = "send_callback"
  /\ suspended
  /\ \E reading \in LinkReadings : SendReturnsTrue(reading)
  /\ pc' = "idle"
  /\ suspended' = FALSE
  /\ outerObs' = NoObs
  /\ lastOp' = outerObs.lastOp
  /\ preJoined' = outerObs.preJoined
  /\ preClass' = outerObs.preClass
  /\ argData' = outerObs.argData
  /\ argLen' = outerObs.argLen
  /\ argClass' = outerObs.argClass
  /\ argConfirmed' = outerObs.argConfirmed
  /\ confirmState' = outerObs.confirmState
  /\ otaaCalls' = outerObs.otaaCalls
  /\ txCalls' = outerObs.txCalls
  /\ confirmCalls' = outerObs.confirmCalls
  /\ joinCalls' = outerObs.joinCalls
  /\ joinWaits' = outerObs.joinWaits
  /\ txWaits' = outerObs.txWaits
  /\ downlinkCalls' = outerObs.downlinkCalls
  /\ downlinkLen' = outerObs.downlinkLen
  /\ beaconCalls' = outerObs.beaconCalls
  /\ argPeriodicity' = outerObs.argPeriodicity
  /\ UNCHANGED <<radio, node, bandNum, subBand, isJoined, lastErrorCode, keyVars,
                 buildVars, classVars, caller, jAttempt, backoffDelay, sAttempt,
                 nOps, downlinkCallback, beaconCallback, timeVars>>

\* delay(3000) before the next attempt (line 578); the clock advances by
\* that much
SendWait ==
  /\ pc = "send_wait"
  /\ txWaits' = Append(txWaits, SendRetryDelay)
  /\ pc' = "send_tx"
  /\ UNCHANGED <<mgrVars, keyVars, buildVars, cbVars, classVars, caller, jAttempt, backoffDelay, sAttempt,
                 nOps, lastOp, lastRet, preJoined, preClass, argData, argLen,
                 argClass, argConfirmed,
                 confirmState, otaaCalls, txCalls, confirmCalls, joinCalls,
                 joinWaits>>
  /\ now' = now + SendRetryDelay
  /\ UNCHANGED <<linkVars, lastBeaconRxTime, lastBeaconTimestamp, pingSlotPeriodicity,
                 nextPingSlotTime, callObs>>

(* ------------------------------------------------------------------ *)
(* handleEvents                                                        *)
(* ------------------------------------------------------------------ *)
EventTypes == {"RX_DATA", "JOIN_ACCEPT", "OTHER"}

HandleEvents ==
  /\ Start("handleEvents")
  /\ Done(TRUE)
  /\ IF ~node
     THEN /\ downlinkCalls' = 0
          /\ UNCHANGED <<isJoined, lastErrorCode, lastRssi, lastSnr>>
     ELSE \E state \in CheckCodes, hasEvent \in BOOLEAN, type \in EventTypes,
             reading \in LinkReadings :
            IF state = ERR_NONE
            THEN /\ isJoined' = IF hasEvent /\ type = "JOIN_ACCEPT" THEN TRUE ELSE isJoined
                 /\ IF hasEvent /\ type = "RX_DATA"
                    THEN /\ lastRssi' = reading.rssi
                         /\ lastSnr' = reading.snr
                         /\ downlinkCalls' = IF downlinkCallback THEN 1 ELSE 0
                    ELSE /\ downlinkCalls' = 0
                         /\ UNCHANGED <<lastRssi, lastSnr>>
                 /\ UNCHANGED lastErrorCode
            ELSE /\ lastErrorCode' = IF state # noDownlink /\ state # ERR_NETWORK_NOT_JOINED
                                     THEN state ELSE lastErrorCode
                 /\ downlinkCalls' = 0
                 /\ UNCHANGED <<isJoined, lastRssi, lastSnr>>
  /\ downlinkLen' = 0
  /\ beaconCalls' = 0
  /\ argPeriodicity' = 0
  /\ UNCHANGED <<radio, node, bandNum, subBand, keyVars, buildVars, cbVars, consecutiveTransmitErrors, classVars,
                 downlinkCallback, beaconCallback, timeVars>>

(* ------------------------------------------------------------------ *)
(* Device class                                                        *)
(* ------------------------------------------------------------------ *)

\* LoRaManager::startBeaconAcquisition, as [ret, err, beacon, rxTime];
\* rxTime is lastBeaconRxTime and millis what millis() returns
startBeaconAcquisition(hasNode, hasRadio, joined, err, beacon, rxTime, millis) ==
  IF ~hasNode \/ ~hasRadio
  THEN [ret |-> FALSE, err |-> ERR_INVALID_STATE, beacon |-> beacon, rxTime |-> rxTime]
  ELSE IF ~joined
  THEN [ret |-> FALSE, err |-> ERR_NETWORK_NOT_JOINED, beacon |-> beacon, rxTime |-> rxTime]
  ELSE [ret |-> TRUE, err |-> err, beacon |-> BEACON_STATE_ACQUISITION, rxTime |-> millis]

\* LoRaManager::stopBeaconAcquisition
stopBeaconAcquisition(beacon) ==
  IF beacon # BEACON_STATE_IDLE THEN BEACON_STATE_IDLE ELSE beacon

startContinuousReceptionFlagless(hasNode, hasRadio, joined, err, rx) ==
  IF ~hasNode \/ ~hasRadio THEN [ret |-> FALSE, err |-> ERR_INVALID_STATE, rx |-> rx]
  ELSE IF ~joined THEN [ret |-> FALSE, err |-> ERR_NETWORK_NOT_JOINED, rx |-> rx]
  ELSE [ret |-> TRUE, err |-> err, rx |-> rx]

\* LoRaManager::startContinuousReception, as [ret, err, rx]
startContinuousReception(hasNode, hasRadio, joined, err, rx) ==
  IF ~hasNode \/ ~hasRadio THEN [ret |-> FALSE, err |-> ERR_INVALID_STATE, rx |-> rx]
  ELSE IF ~joined THEN [ret |-> FALSE, err |-> ERR_NETWORK_NOT_JOINED, rx |-> rx]
  ELSE [ret |-> TRUE, err |-> err, rx |-> TRUE]

stopContinuousReceptionNoop(rx) == rx

\* LoRaManager::stopContinuousReception
stopContinuousReception(rx) == IF rx THEN FALSE ELSE rx

\* setDeviceClass: the test of the argument (lines 687-691)
ValidClassAny(target) == TRUE
ValidClass(target) ==
  target = DEVICE_CLASS_A \/ target = DEVICE_CLASS_B \/ target = DEVICE_CLASS_C

\* setDeviceClass: if (this->deviceClass == deviceClass) return true
SameClassNever(current, target) == FALSE
SameClass(current, target) == current = target

SetDeviceClass ==
  /\ UNCHANGED frameVars
  /\ \E target \in ClassArgs :
       /\ StartArgs("setDeviceClass", FALSE, 0, FALSE, target)
       /\ IF ~ValidClass(target)
          THEN /\ lastErrorCode' = ERR_INVALID_INPUT
               /\ lastRet' = FALSE
               /\ UNCHANGED <<classVars, lastBeaconRxTime>>
          ELSE IF SameClass(deviceClass, target)
          THEN /\ lastRet' = TRUE
               /\ UNCHANGED <<lastErrorCode, classVars, lastBeaconRxTime>>
          ELSE LET previousClass == deviceClass
               IN /\ deviceClass' = target
                  /\ IF target = DEVICE_CLASS_A
                     THEN /\ beaconState' = IF previousClass = DEVICE_CLASS_B
                                            THEN stopBeaconAcquisition(beaconState)
                                            ELSE beaconState
                          /\ continuousReception' =
                               IF previousClass = DEVICE_CLASS_B THEN continuousReception
                               ELSE IF previousClass = DEVICE_CLASS_C
                               THEN stopContinuousReception(continuousReception)
                               ELSE continuousReception
                          /\ lastRet' = TRUE
                          /\ UNCHANGED <<lastErrorCode, lastBeaconRxTime>>
                     ELSE IF target = DEVICE_CLASS_B
                     THEN LET rx == IF previousClass = DEVICE_CLASS_C
                                    THEN stopContinuousReception(continuousReception)
                                    ELSE continuousReception
                              r == startBeaconAcquisition(node, radio, isJoined,
                                                          lastErrorCode, beaconState,
                                                          lastBeaconRxTime, now)
                          IN /\ continuousReception' = rx
                             /\ beaconState' = r.beacon
                             /\ lastBeaconRxTime' = r.rxTime
                             /\ lastErrorCode' = r.err
                             /\ lastRet' = r.ret
                     ELSE IF target = DEVICE_CLASS_C
                     THEN LET b == IF previousClass = DEVICE_CLASS_B
                                   THEN stopBeaconAcquisition(beaconState)
                                   ELSE beaconState
                              r == startContinuousReception(node, radio, isJoined,
                                                            lastErrorCode, continuousReception)
                          IN /\ beaconState' = b
                             /\ continuousReception' = r.rx
                             /\ lastErrorCode' = r.err
                             /\ lastRet' = r.ret
                             /\ UNCHANGED lastBeaconRxTime
                     ELSE \* "We should never reach here" (lines 734-735)
                          /\ lastRet' = FALSE
                          /\ UNCHANGED <<beaconState, continuousReception, lastErrorCode,
                                         lastBeaconRxTime>>
  /\ UNCHANGED <<radio, node, bandNum, subBand, keyVars, buildVars, cbVars, isJoined, consecutiveTransmitErrors>>
  /\ ResetCallObs
  /\ UNCHANGED <<linkVars, now, lastBeaconTimestamp, pingSlotPeriodicity,
                 nextPingSlotTime>>

\* the host calls the public startBeaconAcquisition
StartBeaconAcquisition ==
  /\ Start("startBeaconAcquisition")
  /\ UNCHANGED frameVars
  /\ LET r == startBeaconAcquisition(node, radio, isJoined, lastErrorCode, beaconState,
                                     lastBeaconRxTime, now)
     IN /\ beaconState' = r.beacon
        /\ lastBeaconRxTime' = r.rxTime
        /\ lastErrorCode' = r.err
        /\ lastRet' = r.ret
  /\ UNCHANGED <<radio, node, bandNum, subBand, keyVars, buildVars, cbVars, isJoined, consecutiveTransmitErrors,
                 deviceClass, continuousReception>>
  /\ ResetCallObs
  /\ UNCHANGED <<linkVars, now, lastBeaconTimestamp, pingSlotPeriodicity,
                 nextPingSlotTime>>

\* the host calls the public stopBeaconAcquisition
StopBeaconAcquisition ==
  /\ Start("stopBeaconAcquisition")
  /\ Done(TRUE)
  /\ beaconState' = stopBeaconAcquisition(beaconState)
  /\ UNCHANGED <<mgrVars, keyVars, buildVars, cbVars, deviceClass, continuousReception>>
  /\ ResetCallObs
  /\ UNCHANGED <<linkVars, timeVars>>

(* ------------------------------------------------------------------ *)
(* Callbacks                                                           *)
(* ------------------------------------------------------------------ *)

\* the host calls setDownlinkCallback with a function or with nullptr
\* (lines 300-303)
SetDownlinkCallback ==
  /\ Start("setDownlinkCallback")
  /\ Done(TRUE)
  /\ ResetCallObs
  /\ \E registered \in BOOLEAN : downlinkCallback' = registered
  /\ UNCHANGED <<mgrVars, keyVars, buildVars, cbVars, classVars, lastRssi, lastSnr, beaconCallback, timeVars>>

\* the host calls setBeaconCallback with a function or with nullptr
\* (lines 819-822)
SetBeaconCallback ==
  /\ Start("setBeaconCallback")
  /\ Done(TRUE)
  /\ ResetCallObs
  /\ \E registered \in BOOLEAN : beaconCallback' = registered
  /\ UNCHANGED <<mgrVars, keyVars, buildVars, cbVars, classVars, lastRssi, lastSnr, downlinkCallback, timeVars>>

(* ------------------------------------------------------------------ *)
(* Class B: time, ping slots, beacons                                  *)
(* ------------------------------------------------------------------ *)

\* millis() advances between two calls of the host (followed up to MaxTime
\* after the first call)
Tick ==
  /\ pc = "idle"
  /\ now + TickMs <= startTime + MaxTime
  /\ now' = now + TickMs
  /\ UNCHANGED <<mgrVars, keyVars, buildVars, cbVars, classVars, frameVars, obsVars, linkVars, lastBeaconRxTime,
                 lastBeaconTimestamp, pingSlotPeriodicity, nextPingSlotTime, callObs>>

\* setPingSlotPeriodicity: the test of the argument (line 787)
ValidPeriodicityAny(periodicity) == TRUE
ValidPeriodicity(periodicity) == ~(periodicity > MaxPeriodicity)

\* setPingSlotPeriodicity: the test before calculateNextPingSlot (line 798)
PingSlotsTracked(class, beacon) ==
  class = DEVICE_CLASS_B /\ beacon = BEACON_STATE_LOCKED

\* LoRaManager::calculateNextPingSlot: the new nextPingSlotTime (lines
\* 859-865).  pingPeriod and pingOffset are uint32_t and millis() is an
\* unsigned long of 32 bits: the sum is taken modulo 2^32, here by its halves
\* of 16 bits.  For a periodicity of at most 7 the product is at most
\* 4096000.
calculateNextPingSlot(periodicity, millis, pingOffset) ==
  LET pingPeriod == 2 ^ (5 + periodicity)
      added == ((pingPeriod * 1000) + pingOffset)
      low == (millis % U16) + (added % U16)
      high == (millis \div U16) + (added \div U16) + (low \div U16)
  IN ((high % U16) * U16) + (low % U16)

\* the host calls setPingSlotPeriodicity (lines 786-806); pingOffset is what
\* random(500) returns
SetPingSlotPeriodicity ==
  /\ \E periodicity \in PingArgs, pingOffset \in PingOffsets :
       /\ Start("setPingSlotPeriodicity")
       /\ Done(ValidPeriodicity(periodicity))
       /\ argPeriodicity' = periodicity
       /\ IF ~ValidPeriodicity(periodicity)
          THEN /\ lastErrorCode' = ERR_INVALID_INPUT
               /\ UNCHANGED <<pingSlotPeriodicity, nextPingSlotTime>>
          ELSE /\ pingSlotPeriodicity' = periodicity
               /\ nextPingSlotTime' =
                    IF PingSlotsTracked(deviceClass, beaconState)
                    THEN calculateNextPingSlot(periodicity, now, pingOffset)
                    ELSE nextPingSlotTime
               /\ UNCHANGED lastErrorCode
  /\ downlinkCalls' = 0
  /\ downlinkLen' = 0
  /\ beaconCalls' = 0
  /\ UNCHANGED <<radio, node, bandNum, subBand, keyVars, buildVars, cbVars, isJoined, consecutiveTransmitErrors,
                 classVars, linkVars, now, lastBeaconRxTime, lastBeaconTimestamp>>

\* RSSI and SNR of a received beacon
BeaconReadings == {[rssi |-> 0 - 95, snr |-> 3]}

\* LoRaManager::handleBeaconReception runs for a received beacon (lines
\* 825-845).  It is private and no code of the class calls it.
HandleBeaconReception ==
  /\ Start("handleBeaconReception")
  /\ Done(TRUE)
  /\ lastBeaconTimestamp' = now
  /\ \E reading \in BeaconReadings :
       /\ lastRssi' = reading.rssi
       /\ lastSnr' = reading.snr
  /\ beaconCalls' = IF beaconCallback THEN 1 ELSE 0
  /\ downlinkCalls' = 0
  /\ downlinkLen' = 0
  /\ argPeriodicity' = 0
  /\ UNCHANGED <<mgrVars, keyVars, buildVars, cbVars, classVars, downlinkCallback, beaconCallback, now,
                 lastBeaconRxTime, pingSlotPeriodicity, nextPingSlotTime>>

(* ------------------------------------------------------------------ *)
(* Specification                                                       *)
(* ------------------------------------------------------------------ *)
Next ==
  \/ Begin
  \/ CallJoinNetwork
  \/ JoinAttempt
  \/ JoinConfirm
  \/ JoinBackoff
  \/ CallSendData
  \/ SendAttempt
  \/ SendWait
  \/ HandleEvents
  \/ SetDeviceClass
  \/ StartBeaconAcquisition
  \/ StopBeaconAcquisition

Spec == Init /\ [][Next]_vars

\* an initialized object whose joinNetwork was accepted at the first attempt:
\* the state after begin() and joinNetwork().  Two more calls of the host
\* are followed from there.
InitJoined ==
  /\ radio = TRUE
  /\ node = TRUE
  /\ bandNum \in BandNums
  /\ subBand \in SubBands
  /\ isJoined = TRUE
  /\ lastErrorCode = ERR_NONE
  /\ consecutiveTransmitErrors = 0
  /\ deviceClass = DEVICE_CLASS_A
  /\ beaconState = BEACON_STATE_IDLE
  /\ continuousReception = FALSE
  /\ pc = "idle"
  /\ caller = "host"
  /\ jAttempt = 0
  /\ backoffDelay = 0
  /\ sAttempt = 0
  /\ nOps = MaxOps - 2
  /\ lastOp = "joinNetwork"
  /\ lastRet = TRUE
  /\ preJoined = FALSE
  /\ preClass = DEVICE_CLASS_A
  /\ argData = FALSE
  /\ argLen = 0
  /\ argClass = "-"
  /\ argConfirmed = FALSE
  /\ confirmState = ERR_NONE
  /\ otaaCalls = 1
  /\ txCalls = 0
  /\ confirmCalls = 1
  /\ joinCalls = 0
  /\ joinWaits = <<>>
  /\ txWaits = <<>>
  /\ lastRssi = 0
  /\ lastSnr = 0
  /\ downlinkCallback = FALSE
  /\ beaconCallback = FALSE
  /\ now = 0
  /\ lastBeaconRxTime = 0
  /\ lastBeaconTimestamp = 0
  /\ pingSlotPeriodicity = 0
  /\ nextPingSlotTime = 0
  /\ downlinkCalls = 0
  /\ downlinkLen = 0
  /\ beaconCalls = 0
  /\ argPeriodicity = 0
  /\ joinEUI = 0
  /\ devEUI = 0
  /\ appKey = ZeroKey
  /\ nwkKey = ZeroKey
  /\ argAppKeyHex = <<>>
  /\ argNwkKeyHex = <<>>
  /\ noDownlink \in NoDownlinkValues
  /\ startTime = now
  /\ suspended = FALSE
  /\ outerObs = NoObs

\* the same operations from there
SpecJoined == InitJoined /\ [][Next]_vars

\* sending with a downlink callback: the host and the callback it
\* registered call sendData (with its inline rejoin), handleEvents and
\* setDeviceClass
NextLink ==
  \/ CallSendData
  \/ SendAttempt
  \/ SendWait
  \/ JoinAttempt
  \/ JoinConfirm
  \/ JoinBackoff
  \/ DownlinkCallbackReturns
  \/ SetDownlinkCallback
  \/ HandleEvents
  \/ SetDeviceClass

\* the joined object in the US915 band, with or without a downlink callback
\* registered before
InitLink ==
  /\ radio = TRUE
  /\ node = TRUE
  /\ bandNum = 2
  /\ subBand \in SubBands
  /\ isJoined = TRUE
  /\ lastErrorCode = ERR_NONE
  /\ consecutiveTransmitErrors = 0
  /\ deviceClass = DEVICE_CLASS_A
  /\ beaconState = BEACON_STATE_IDLE
  /\ continuousReception = FALSE
  /\ pc = "idle"
  /\ caller = "host"
  /\ jAttempt = 0
  /\ backoffDelay = 0
  /\ sAttempt = 0
  /\ nOps = MaxOps - 2
  /\ lastOp = "joinNetwork"
  /\ lastRet = TRUE
  /\ preJoined = FALSE
  /\ preClass = DEVICE_CLASS_A
  /\ argData = FALSE
  /\ argLen = 0
  /\ argClass = "-"
  /\ argConfirmed = FALSE
  /\ confirmState = ERR_NONE
  /\ otaaCalls = 1
  /\ txCalls = 0
  /\ confirmCalls = 1
  /\ joinCalls = 0
  /\ joinWaits = <<>>
  /\ txWaits = <<>>
  /\ lastRssi = 0
  /\ lastSnr = 0
  /\ downlinkCallback \in BOOLEAN
  /\ beaconCallback = FALSE
  /\ now = 0
  /\ lastBeaconRxTime = 0
  /\ lastBeaconTimestamp = 0
  /\ pingSlotPeriodicity = 0
  /\ nextPingSlotTime = 0
  /\ downlinkCalls = 0
  /\ downlinkLen = 0
  /\ beaconCalls = 0
  /\ argPeriodicity = 0
  /\ joinEUI = 0
  /\ devEUI = 0
  /\ appKey = ZeroKey
  /\ nwkKey = ZeroKey
  /\ argAppKeyHex = <<>>
  /\ argNwkKeyHex = <<>>
  /\ noDownlink \in NoDownlinkValues
  /\ startTime = now
  /\ suspended = FALSE
  /\ outerObs = NoObs

SpecLink == InitLink /\ [][NextLink]_vars

\* the Class B side of the object: joining, the class switches, the beacon
\* and ping slot operations and the clock
NextClassB ==
  \/ Begin
  \/ CallJoinNetwork
  \/ JoinAttempt
  \/ JoinConfirm
  \/ JoinBackoff
  \/ HandleEvents
  \/ SetDeviceClass
  \/ StartBeaconAcquisition
  \/ StopBeaconAcquisition
  \/ SetBeaconCallback
  \/ SetPingSlotPeriodicity
  \/ HandleBeaconReception
  \/ Tick

SpecClassB == InitJoined /\ [][NextClassB]_vars

(* ------------------------------------------------------------------ *)
(* Properties                                                          *)
(* ------------------------------------------------------------------ *)
Returned(op) == HostRuns /\ lastOp = op

\* C1: a joinNetwork call on an initialized manager that returns failure
\* (every activateOTAA of the call failed) has made exactly 5 activateOTAA
\* attempts and no confirmation uplink and leaves isJoined false, whatever
\* isJoined was before the call; no call makes more than 5 attempts.
C1_JoinExhaustsFiveAttempts ==
  /\ (Returned("joinNetwork") /\ node /\ ~lastRet)
       => (otaaCalls = 5 /\ confirmCalls = 0 /\ ~isJoined)
  /\ (lastOp = "joinNetwork" => otaaCalls <= 5)

C1_Witness ==
  /\ Returned("joinNetwork") /\ node /\ ~lastRet
  /\ preJoined /\ otaaCalls = 5 /\ ~isJoined

\* C2 (as claimed): a confirmed sendData call on a joined session whose last
\* sendReceive returned Timeout, and none NotJoined, has failed after exactly
\* 3 sendReceive attempts and 2 waits of 3000 ms.
C2_TimeoutRetriedThreeTimes ==
  (Returned("sendData") /\ argConfirmed /\ preJoined /\ joinCalls = 0
     /\ txCalls > 0 /\ lastErrorCode = ERR_TX_TIMEOUT)
    => (~lastRet /\ txCalls = 3 /\ txWaits = <<3000, 3000>>)

\* C3: the waits of a joinNetwork call are 1000, 2000, 4000, 8000, 16000 ms
\* in this order, one after each failed attempt (all five when the call
\* fails), none above 30000 ms, and doubling the 16-bit backoff variable
\* never passes 65535.
C3_BackoffSequence ==
  /\ \A i \in DOMAIN joinWaits :
       joinWaits[i] = <<1000, 2000, 4000, 8000, 16000>>[i] /\ joinWaits[i] <= 30000
  /\ Len(joinWaits) <= 5
  /\ (Returned("joinNetwork") /\ node /\ ~lastRet)
       => joinWaits = <<1000, 2000, 4000, 8000, 16000>>
  /\ pc = "join_backoff" => Len(joinWaits) = jAttempt - 1
  /\ backoffDelay * 2 < 65536

C3_Witness ==
  /\ Returned("joinNetwork") /\ node /\ ~lastRet
  /\ joinWaits = <<1000, 2000, 4000, 8000, 16000>>

\* C4: a joinNetwork call in which attempt k is the first to return Success
\* or NewSession stops there: isJoined is true, one confirmation uplink is
\* sent, the call has made k attempts and k-1 waits and returns true
\* whatever the confirmation uplink returned.
C4_JoinSucceedsAtFirstAccept ==
  /\ pc = "join_confirm"
       => /\ isJoined /\ lastErrorCode \in {ERR_NONE, NEW_SESSION}
          /\ caller = "host" => confirmCalls = 0
  /\ (Returned("joinNetwork") /\ confirmState # "none")
       => /\ lastRet /\ isJoined
          /\ confirmCalls = 1
          /\ otaaCalls \in 1..5
          /\ Len(joinWaits) = otaaCalls - 1
          /\ lastErrorCode \in {ERR_NONE, NEW_SESSION}
  /\ (Returned("joinNetwork") /\ lastRet) => (confirmCalls = 1 /\ isJoined)

C4_Witness ==
  /\ Returned("joinNetwork") /\ lastRet /\ isJoined
  /\ otaaCalls = 3 /\ confirmCalls = 1
  /\ confirmState = ERR_TX_TIMEOUT
  /\ lastErrorCode = NEW_SESSION

\* C5: joinNetwork on a manager whose node was never created returns false
\* at once: no activateOTAA, no wait, no uplink, isJoined as before, and
\* lastErrorCode is the invalid-state code.
C5_JoinNotInitialized ==
  (lastOp = "joinNetwork" /\ ~node) =>
    /\ pc = "idle" /\ ~lastRet
    /\ otaaCalls = 0 /\ confirmCalls = 0 /\ joinWaits = <<>>
    /\ isJoined = preJoined
    /\ lastErrorCode = ERR_INVALID_STATE

C5_Witness ==
  /\ Returned("joinNetwork") /\ ~node /\ radio
  /\ ~lastRet /\ lastErrorCode = ERR_INVALID_STATE

\* C6 (as claimed): a sendData call with a payload on an initialized manager
\* that is not joined runs joinNetwork before it returns.
C6_SendRejoinsWhenNotJoined ==
  (Returned("sendData") /\ node /\ ~preJoined /\ argLen > 0) => joinCalls > 0

\* C7: in a sendData call none of whose attempts returned NotJoined there is
\* no activateOTAA, isJoined stays true while the call is between attempts
\* (also with consecutiveTransmitErrors at 3 or more), and isJoined is false
\* afterwards only if the call returned failure with
\* consecutiveTransmitErrors >= 3 (or its downlink callback ran, and an
\* operation called from there cleared it).
C7_NoRejoinMidCall ==
  (lastOp = "sendData" /\ preJoined /\ joinCalls = 0) =>
    /\ otaaCalls = 0
    /\ pc \in {HostPc(suspended), "send_tx", "send_wait"}
    /\ pc \in {"send_tx", "send_wait"} => isJoined
    /\ (HostRuns /\ ~isJoined /\ downlinkCalls = 0)
         => (~lastRet /\ consecutiveTransmitErrors >= 3)

C7_Witness ==
  /\ lastOp = "sendData" /\ joinCalls = 0 /\ pc = "send_wait"
  /\ consecutiveTransmitErrors = 3 /\ txCalls = 2 /\ isJoined

\* C8 (as claimed): whenever no operation is running and
\* consecutiveTransmitErrors >= 3, isJoined is false.
C8_ErrorsImplyNotJoined ==
  (pc = "idle" /\ consecutiveTransmitErrors >= 3) => ~isJoined

\* C9: a sendData call that returns success leaves
\* consecutiveTransmitErrors at 0, whatever failed before, and isJoined
\* true unless its downlink callback ran (the operations a callback calls
\* may clear isJoined before sendData returns).
C9_SuccessResetsErrors ==
  (Returned("sendData") /\ lastRet)
    => (consecutiveTransmitErrors = 0 /\ (downlinkCalls = 0 => isJoined))

C9_Witness ==
  /\ Returned("sendData") /\ lastRet /\ argConfirmed
  /\ txCalls = 3 /\ txWaits = <<3000, 3000>> /\ joinCalls = 0
  /\ consecutiveTransmitErrors = 0 /\ isJoined

\* C10: when a sendReceive of sendData returns NotJoined, the same step
\* clears isJoined and enters joinNetwork; when that joinNetwork fails,
\* sendData returns false in the same step with no further sendReceive and
\* no wait; when it succeeds and fewer than 3 attempts were made, sendData
\* goes on to the 3000 ms wait and the next sendReceive.
C10_InlineRejoin ==
  [][ /\ (pc = "send_tx" /\ txCalls' = txCalls + 1
            /\ lastErrorCode' = ERR_NETWORK_NOT_JOINED)
        => (pc' = "join_otaa" /\ caller' = "sendData" /\ ~isJoined'
              /\ joinCalls' = joinCalls + 1 /\ otaaCalls' = otaaCalls
              /\ txWaits' = txWaits)
      /\ (caller = "sendData" /\ pc = "join_backoff" /\ pc' # "join_otaa")
        => (HostRuns' /\ ~lastRet' /\ ~isJoined'
              /\ txCalls' = txCalls /\ txWaits' = txWaits)
      /\ (caller = "sendData" /\ pc = "join_confirm" /\ txCalls < 3)
        => (pc' = "send_wait" /\ isJoined')
      /\ (pc = "send_wait")
        => (pc' = "send_tx" /\ txWaits' = Append(txWaits, 3000))
      /\ (pc = "send_tx") => txCalls' = txCalls + 1
    ]_vars

C10_Witness ==
  /\ Returned("sendData") /\ ~lastRet /\ ~isJoined
  /\ joinCalls = 1 /\ otaaCalls = 5 /\ txCalls = 1 /\ txWaits = <<>>

\* C11: one sendData call invokes joinNetwork at most once.
C11_AtMostOneRejoin ==
  lastOp = "sendData" => joinCalls <= 1

\* C11 (as the code has it): joinNetwork runs once for every attempt that
\* ends with NotJoined, so a sendData call invokes it up to 3 times, never
\* more often than it transmitted, and a rejoin that fails ends the call
\* (isJoined false at the return of a call that rejoined, made fewer than 3
\* attempts and called no downlink callback: the call returned failure).
C11_RejoinPerNotJoinedAttempt ==
  lastOp = "sendData" =>
    /\ joinCalls <= txCalls
    /\ joinCalls <= 3
    /\ (Returned("sendData") /\ joinCalls > 0 /\ ~isJoined /\ txCalls < 3
          /\ downlinkCalls = 0) => ~lastRet

C11_Witness ==
  /\ Returned("sendData") /\ joinCalls = 3 /\ txCalls = 3 /\ ~lastRet

\* C12: an unconfirmed sendData that fails with a retryable code makes
\* exactly 1 attempt.
C12_UnconfirmedSingleAttempt ==
  (Returned("sendData") /\ ~argConfirmed /\ ~lastRet /\ txCalls > 0 /\ joinCalls = 0)
    => txCalls = 1

\* C12 (as the code has it): the cap is 3 whatever the confirmed flag is; a
\* sendData call that fails without NotJoined made 3 attempts with two
\* 3000 ms waits, confirmed or not, and no call makes more than 3.
C12_CapIgnoresConfirmed ==
  /\ \A c \in BOOLEAN :
       (Returned("sendData") /\ argConfirmed = c /\ ~lastRet /\ txCalls > 0
          /\ joinCalls = 0)
         => (txCalls = 3 /\ Len(txWaits) = 2)
  /\ lastOp = "sendData" => txCalls <= 3

C12_Witness ==
  /\ Returned("sendData") /\ ~argConfirmed /\ preJoined /\ joinCalls = 0
  /\ ~lastRet /\ txCalls = 3 /\ Len(txWaits) = 2

\* C13: sendData with an empty payload fails with InvalidInput in every
\* session state.
C13_EmptyPayloadInvalidInput ==
  (Returned("sendData") /\ (~argData \/ argLen = 0))
    => (~lastRet /\ lastErrorCode = ERR_INVALID_INPUT)

\* progress made so far by the blocking call that is running
CallProgress ==
  4 * (otaaCalls + txCalls) + confirmCalls + Len(txWaits)
    + (IF pc = "join_otaa" THEN 1 ELSE 0)

\* a step of the blocking call that is running
CallStep == JoinAttempt \/ JoinConfirm \/ JoinBackoff \/ SendAttempt \/ SendWait

\* C14: every joinNetwork and sendData call terminates: while a call runs it
\* can always take its next step, every step that does not return raises a
\* progress count that never exceeds 78, joinNetwork makes at most 5
\* activateOTAA calls and 1 confirmation uplink, sendData at most 3
\* sendReceive calls and 15 activateOTAA calls, and every wait is at most
\* 30000 ms (3000 ms between send attempts).
C14_CallsTerminate ==
  /\ [](/\ pc # "idle" => ENABLED CallStep
        /\ CallProgress <= 78
        /\ lastOp = "joinNetwork" => (otaaCalls <= 5 /\ confirmCalls <= 1)
        /\ lastOp = "sendData" => (txCalls <= 3 /\ otaaCalls <= 15)
        /\ \A i \in DOMAIN joinWaits : joinWaits[i] <= 30000
        /\ \A i \in DOMAIN txWaits : txWaits[i] = 3000)
  /\ [][(pc # "idle" /\ pc' # "idle") => CallProgress' > CallProgress]_vars

C14_Witness ==
  /\ Returned("sendData") /\ otaaCalls = 15 /\ txCalls = 3 /\ joinCalls = 3

\* the step in which the host calls setDeviceClass
SetClassCall ==
  pc = "idle" /\ nOps' = nOps + 1 /\ lastOp' = "setDeviceClass"

\* C15: setDeviceClass with the class the device is already in returns
\* success, leaves deviceClass, beaconState, continuousReception, isJoined and
\* lastErrorCode unchanged and performs no radio operation.
C15_SameClassNoOp ==
  [][ (SetClassCall /\ argClass' = deviceClass) =>
        /\ pc' = "idle" /\ lastRet'
        /\ deviceClass' = deviceClass
        /\ beaconState' = beaconState
        /\ continuousReception' = continuousReception
        /\ isJoined' = isJoined
        /\ lastErrorCode' = lastErrorCode
        /\ txCalls' = 0 /\ otaaCalls' = 0 /\ confirmCalls' = 0
    ]_vars

C15_Witness ==
  /\ Returned("setDeviceClass") /\ argClass = DEVICE_CLASS_B
  /\ preClass = DEVICE_CLASS_B /\ ~preJoined
  /\ lastRet /\ deviceClass = DEVICE_CLASS_B

\* C16: setDeviceClass('B') or setDeviceClass('C') on an initialized session
\* that is not joined, from another class, fails with NotJoined and leaves
\* deviceClass at its previous value, beaconState Idle and
\* continuousReception false.
C16_FailedSwitchKeepsClass ==
  (/\ Returned("setDeviceClass") /\ node /\ radio /\ ~preJoined
   /\ argClass \in {DEVICE_CLASS_B, DEVICE_CLASS_C} /\ argClass # preClass)
    => /\ ~lastRet
       /\ lastErrorCode = ERR_NETWORK_NOT_JOINED
       /\ deviceClass = preClass
       /\ beaconState = BEACON_STATE_IDLE
       /\ ~continuousReception

\* C17: beaconState other than Idle implies deviceClass 'B', in every state
\* the public operations can reach.
C17_BeaconOnlyInClassB ==
  beaconState # BEACON_STATE_IDLE => deviceClass = DEVICE_CLASS_B

\* C18: continuousReception true implies deviceClass 'C' in every reachable
\* state, and every step that leaves class C clears continuousReception.
C18_ContinuousOnlyInClassC ==
  /\ [](continuousReception => deviceClass = DEVICE_CLASS_C)
  /\ [][(deviceClass = DEVICE_CLASS_C /\ deviceClass' # DEVICE_CLASS_C)
          => ~continuousReception']_vars

C18_Witness ==
  /\ Returned("setDeviceClass") /\ preClass = DEVICE_CLASS_B
  /\ argClass = DEVICE_CLASS_C /\ lastRet
  /\ continuousReception /\ deviceClass = DEVICE_CLASS_C

\* C19: continuous reception is switched on by setDeviceClass('C') only
\* after a notification uplink was sent.
C19_UplinkBeforeContinuous ==
  (/\ Returned("setDeviceClass") /\ argClass = DEVICE_CLASS_C
   /\ preClass # DEVICE_CLASS_C /\ continuousReception)
    => txCalls + confirmCalls > 0

\* C19 (as the code has it): a transition to class C sends no uplink and
\* performs no radio operation; on an initialized, joined session
\* setDeviceClass('C') sets continuousReception and returns success at once,
\* otherwise it returns failure and leaves continuousReception as it was;
\* deviceClass is 'C' after either.
C19_ContinuousWithoutUplink ==
  [][ (SetClassCall /\ argClass' = DEVICE_CLASS_C /\ deviceClass # DEVICE_CLASS_C) =>
        /\ pc' = "idle"
        /\ txCalls' = 0 /\ confirmCalls' = 0 /\ otaaCalls' = 0
        /\ deviceClass' = DEVICE_CLASS_C
        /\ IF node /\ radio /\ isJoined
           THEN lastRet' /\ continuousReception' /\ lastErrorCode' = lastErrorCode
           ELSE /\ ~lastRet'
                /\ continuousReception' = continuousReception
                /\ lastErrorCode' = IF node /\ radio THEN ERR_NETWORK_NOT_JOINED
                                    ELSE ERR_INVALID_STATE
    ]_vars

C19_Witness ==
  /\ Returned("setDeviceClass") /\ argClass = DEVICE_CLASS_C
  /\ preClass = DEVICE_CLASS_A /\ preJoined
  /\ lastRet /\ continuousReception /\ txCalls = 0 /\ confirmCalls = 0

\* C20: setDeviceClass with a target outside {'A','B','C'} returns failure
\* with InvalidInput and leaves deviceClass, beaconState and
\* continuousReception unchanged, from every state.
C20_InvalidClassRejected ==
  [][ (SetClassCall /\ argClass' \notin {"A", "B", "C"}) =>
        /\ pc' = "idle" /\ ~lastRet'
        /\ lastErrorCode' = ERR_INVALID_INPUT
        /\ deviceClass' = deviceClass
        /\ beaconState' = beaconState
        /\ continuousReception' = continuousReception
    ]_vars

C20_Witness ==
  /\ Returned("setDeviceClass") /\ argClass = "D"
  /\ preClass = DEVICE_CLASS_C /\ continuousReception
  /\ ~lastRet /\ lastErrorCode = ERR_INVALID_INPUT /\ deviceClass = DEVICE_CLASS_C

\* joinNetwork gives up: the step after the 5th failed activateOTAA
JoinGivesUp ==
  pc = "join_backoff" /\ jAttempt = 5 /\ pc' # "join_backoff"

\* C26: after joinNetwork exhausted its attempts, lastErrorCode is the code
\* the last activateOTAA returned.
C26_ExhaustionKeepsLastCode ==
  [][(JoinGivesUp /\ caller = "host") => lastErrorCode' = lastErrorCode]_vars

\* C26 (as the code has it): when joinNetwork gives up, lastErrorCode, which
\* held the code of the last activateOTAA, is overwritten with NotJoined
\* whatever that code was, and isJoined is false; a joinNetwork call on an
\* initialized object that returns failure leaves lastErrorCode NotJoined.
C26_ExhaustionReportsNotJoined ==
  /\ [](/\ pc = "join_backoff"
             => lastErrorCode \in {ERR_NETWORK_NOT_JOINED, ERR_TX_TIMEOUT, ERR_OTHER}
        /\ (Returned("joinNetwork") /\ ~lastRet /\ otaaCalls > 0)
             => (otaaCalls = 5 /\ lastErrorCode = ERR_NETWORK_NOT_JOINED))
  /\ [][JoinGivesUp => (lastErrorCode' = ERR_NETWORK_NOT_JOINED /\ ~isJoined')]_vars

C26_Witness ==
  /\ Returned("joinNetwork") /\ ~lastRet /\ otaaCalls = 5
  /\ lastErrorCode = ERR_NETWORK_NOT_JOINED /\ ~isJoined

\* C28: isJoined implies that the node was created, in every reachable
\* state, also after failed and repeated begin() calls, so sendData never
\* calls sendReceive without a node.
C28_JoinedImpliesNode ==
  /\ isJoined => node
  /\ pc \in {"send_tx", "send_wait", "join_otaa", "join_confirm", "join_backoff"} => node

C28_Witness ==
  /\ Returned("begin") /\ ~lastRet /\ preJoined /\ isJoined /\ node

\* C29: whenever setDeviceClass returns success the target class is
\* operating: beaconState is not Idle after setDeviceClass('B'), and
\* continuousReception is true after setDeviceClass('C').
C29_SuccessMeansOperating ==
  (Returned("setDeviceClass") /\ lastRet) =>
    /\ argClass = DEVICE_CLASS_B => beaconState # BEACON_STATE_IDLE
    /\ argClass = DEVICE_CLASS_C => continuousReception

(* ------------------------------------------------------------------ *)
(* A session that has been failing for a long time                     *)
(* ------------------------------------------------------------------ *)

\* values of consecutiveTransmitErrors that a joined object carries over from
\* failed calls.  A sendData call that ends after one NotJoined attempt and
\* a failed rejoin adds 1, a sendData call whose 3 attempts fail adds 3 and
\* clears isJoined, and a joinNetwork call that is accepted sets isJoined
\* again without touching the counter: 1 after one call of the first kind,
\* 253 after 84 of the second kind as well, 254 and 255 with more of the
\* first kind.  One more call of the host is followed from there.
WornCounts == {1, 253, 254, 255}

\* the delay() calls of a joinNetwork that fails at every attempt (line 398:
\* one after each attempt, the delay doubled and capped in between)
RECURSIVE BackoffTotal(_, _)
BackoffTotal(delay, attempts) ==
  IF attempts = 0 THEN 0
  ELSE delay + BackoffTotal(NextBackoff(delay), attempts - 1)
FailedJoinDelay == BackoffTotal(InitialBackoff, JoinMaxAttempts)

\* the delay(3000) calls of a sendData whose 3 attempts fail (line 578)
FailedSendDelay == (SendMaxAttempts - 1) * SendRetryDelay

\* millis() after the calls that left the counter at errors, when the clock
\* advanced in their delay() calls only: sendData calls that fail 3 times
\* (84 of them from 252 on), each followed by an accepted joinNetwork, then
\* sendData calls that end in a failed rejoin, each followed by an accepted
\* joinNetwork
WornSendCalls(errors) == IF errors < 252 THEN 0 ELSE 84
WornClock(errors) ==
  WornSendCalls(errors) * FailedSendDelay
    + (errors - RejoinThreshold * WornSendCalls(errors)) * FailedJoinDelay

\* an initialized, joined object after that many failed calls
InitWorn ==
  /\ radio = TRUE
  /\ node = TRUE
  /\ bandNum \in BandNums
  /\ subBand \in SubBands
  /\ isJoined = TRUE
  /\ lastErrorCode = ERR_NONE
  /\ consecutiveTransmitErrors \in WornCounts
  /\ deviceClass = DEVICE_CLASS_A
  /\ beaconState = BEACON_STATE_IDLE
  /\ continuousReception = FALSE
  /\ pc = "idle"
  /\ caller = "host"
  /\ jAttempt = 0
  /\ backoffDelay = 0
  /\ sAttempt = 0
  /\ nOps = MaxOps - 1
  /\ lastOp = "joinNetwork"
  /\ lastRet = TRUE
  /\ preJoined = FALSE
  /\ preClass = DEVICE_CLASS_A
  /\ argData = FALSE
  /\ argLen = 0
  /\ argClass = "-"
  /\ argConfirmed = FALSE
  /\ confirmState = ERR_NONE
  /\ otaaCalls = 1
  /\ txCalls = 0
  /\ confirmCalls = 1
  /\ joinCalls = 0
  /\ joinWaits = <<>>
  /\ txWaits = <<>>
  /\ lastRssi = 0
  /\ lastSnr = 0
  /\ downlinkCallback = FALSE
  /\ beaconCallback = FALSE
  /\ now = WornClock(consecutiveTransmitErrors)
  /\ lastBeaconRxTime = 0
  /\ lastBeaconTimestamp = 0
  /\ pingSlotPeriodicity = 0
  /\ nextPingSlotTime = 0
  /\ downlinkCalls = 0
  /\ downlinkLen = 0
  /\ beaconCalls = 0
  /\ argPeriodicity = 0
  /\ joinEUI = 0
  /\ devEUI = 0
  /\ appKey = ZeroKey
  /\ nwkKey = ZeroKey
  /\ argAppKeyHex = <<>>
  /\ argNwkKeyHex = <<>>
  /\ noDownlink \in NoDownlinkValues
  /\ startTime = now
  /\ suspended = FALSE
  /\ outerObs = NoObs

SpecLongRun == InitWorn /\ [][Next]_vars

\* C30: a sendData call that made at least one sendReceive attempt and
\* returns failure leaves isJoined false, however many failed calls the
\* 8-bit counter has accumulated.
C30_FailedSendClearsJoined ==
  (Returned("sendData") /\ txCalls > 0 /\ ~lastRet) => ~isJoined

\* the step in which handleBeaconReception runs
BeaconCall ==
  pc = "idle" /\ nOps' = nOps + 1 /\ lastOp' = "handleBeaconReception"

\* C21: a beacon received in class B with beaconState Acquisition, Locked or
\* Lost sets beaconState to Locked, records the reception time in
\* lastBeaconRxTime, sets lastRssi/lastSnr to the beacon's values and invokes
\* a registered beacon callback once.
C21_BeaconLocks ==
  [][ (BeaconCall /\ deviceClass = DEVICE_CLASS_B /\ beaconState # BEACON_STATE_IDLE) =>
        /\ beaconState' = BEACON_STATE_LOCKED
        /\ lastBeaconRxTime' = now
        /\ \E reading \in BeaconReadings :
             lastRssi' = reading.rssi /\ lastSnr' = reading.snr
        /\ beaconCalls' = IF beaconCallback THEN 1 ELSE 0
    ]_vars

\* the step in which the host calls setPingSlotPeriodicity
PingCall ==
  pc = "idle" /\ nOps' = nOps + 1 /\ lastOp' = "setPingSlotPeriodicity"

\* C23: setPingSlotPeriodicity(p) succeeds and stores p for p in 0..7; for
\* p > 7 it fails with InvalidInput and leaves pingSlotPeriodicity and
\* nextPingSlotTime unchanged; pingSlotPeriodicity is within 0..7 in every
\* reachable state.
C23_PingSlotPeriodicityRange ==
  /\ [](pingSlotPeriodicity \in 0..7)
  /\ [][ PingCall =>
           IF argPeriodicity' <= 7
           THEN /\ lastRet'
                /\ pingSlotPeriodicity' = argPeriodicity'
                /\ lastErrorCode' = lastErrorCode
           ELSE /\ ~lastRet'
                /\ lastErrorCode' = ERR_INVALID_INPUT
                /\ pingSlotPeriodicity' = pingSlotPeriodicity
                /\ nextPingSlotTime' = nextPingSlotTime
       ]_vars

C23_Witness ==
  /\ Returned("setPingSlotPeriodicity") /\ argPeriodicity = 255 /\ ~lastRet
  /\ lastErrorCode = ERR_INVALID_INPUT /\ pingSlotPeriodicity = 7

\* C27: a sendReceive of sendData that succeeds with a non-empty downlink
\* calls the registered downlink callback in that step, once; no other step
\* of a sendData call calls it, so a call that has returned has called it at
\* most once, and only if it succeeded with a downlink.  When the callback
\* has returned sendData returns true; a sendData call that returned true has
\* reset consecutiveTransmitErrors and set lastRssi/lastSnr to the radio's
\* reading.
C27_DownlinkDispatchedOnce ==
  /\ [](Returned("sendData") =>
          /\ downlinkCalls <= 1
          /\ downlinkCalls = 1 => (lastRet /\ downlinkLen > 0)
          /\ lastRet =>
               /\ consecutiveTransmitErrors = 0
               /\ \E reading \in LinkReadings :
                    lastRssi = reading.rssi /\ lastSnr = reading.snr)
  /\ [](pc = "send_callback" => suspended)
  /\ [][ /\ pc = "send_tx" =>
             /\ downlinkCalls' =
                  downlinkCalls + (IF IsPositive(lastErrorCode') /\ downlinkLen' > 0
                                      /\ downlinkCallback
                                   THEN 1 ELSE 0)
             /\ downlinkCalls' > downlinkCalls =>
                  \/ pc' = "send_callback" /\ lastOp' = "downlinkCallback"
                  \/ Returned("sendData")' /\ lastRet'
         /\ pc \in {"send_wait", "join_otaa", "join_confirm", "join_backoff"} =>
             downlinkCalls' = downlinkCalls
         /\ (pc = "send_callback" /\ lastOp = "downlinkCallback" /\ pc' = "idle") =>
             (Returned("sendData")' /\ lastRet' /\ downlinkCalls' = 1)
     ]_vars

C27_Witness ==
  /\ Returned("sendData") /\ pc = "idle" /\ lastRet /\ txCalls = 2 /\ downlinkCallback
  /\ downlinkLen > 0 /\ downlinkCalls = 1 /\ consecutiveTransmitErrors = 0
  /\ ~isJoined

(* ------------------------------------------------------------------ *)
(* setCredentialsHex                                                   *)
(* ------------------------------------------------------------------ *)

\* A String is a sequence of one-character strings.
HexDigitChars == {"0", "1", "2", "3", "4", "5", "6", "7", "8", "9", "a", "b", "c", "d", "e", "f", "A", "B", "C", "D", "E", "F"}

\* value of a hexadecimal digit, either case
DigitValue(c) ==
  CASE c \in {"0"} -> 0
    [] c \in {"1"} -> 1
    [] c \in {"2"} -> 2
    [] c \in {"3"} -> 3
    [] c \in {"4"} -> 4
    [] c \in {"5"} -> 5
    [] c \in {"6"} -> 6
    [] c \in {"7"} -> 7
    [] c \in {"8"} -> 8
    [] c \in {"9"} -> 9
    [] c \in {"A", "a"} -> 10
    [] c \in {"B", "b"} -> 11
    [] c \in {"C", "c"} -> 12
    [] c \in {"D", "d"} -> 13
    [] c \in {"E", "e"} -> 14
    [] c \in {"F", "f"} -> 15

\* characters strtol skips before the number (those for which isspace() is
\* true: space, \t, \n, \v, \f, \r), and the signs it accepts.  VT stands for
\* the vertical tab, 0x0B.
VT == "VT"
SpaceChars == {" ", "\t", "\n", VT, "\f", "\r"}
SignChars == {"+", "-"}

\* strtol(byteStr.c_str(), &endPtr, 16) for a two-character byteStr c1 c2
\* (line 261): val is the long it returns, rest the number of characters from
\* endPtr to the terminating '\0'.  strtol skips leading white space, accepts
\* one sign, then reads hexadecimal digits; when it reads no digit endPtr is
\* the start of byteStr.
strtol16(c1, c2) ==
  IF c1 \in HexDigitChars
  THEN IF c2 \in HexDigitChars
       THEN [val |-> 16 * DigitValue(c1) + DigitValue(c2), rest |-> 0]
       ELSE [val |-> DigitValue(c1), rest |-> 1]
  ELSE IF (c1 \in SpaceChars \/ c1 \in SignChars) /\ c2 \in HexDigitChars
       THEN [val |-> IF c1 = "-" THEN 0 - DigitValue(c2) ELSE DigitValue(c2),
             rest |-> 0]
       ELSE [val |-> 0, rest |-> 2]

\* uint8_t byteVal = <long> (line 261)
ToUint8(v) == (v + 256) % 256

\* the loop of hexStringToByteArray from byte i on (lines 256-271); result
\* keeps the bytes written before a chunk that fails
RECURSIVE hexLoop(_, _, _, _)
hexLoop(hexString, result, resultLen, i) ==
  IF i >= resultLen
  THEN [ok |-> TRUE, result |-> result]
  ELSE LET conv == strtol16(hexString[2 * i + 1], hexString[2 * i + 2])
       IN IF conv.rest # 0
          THEN [ok |-> FALSE, result |-> result]
          ELSE hexLoop(hexString, [result EXCEPT ![i + 1] = ToUint8(conv.val)],
                       resultLen, i + 1)

\* LoRaManager::hexStringToByteArray (lines 247-274)
hexStringToByteArray(hexString, result, resultLen) ==
  IF Len(hexString) # resultLen * 2
  THEN [ok |-> FALSE, result |-> result]
  ELSE hexLoop(hexString, result, resultLen, 0)

\* two keys of 32 hexadecimal digits
GoodKeyUpper ==
  <<"0", "0", "1", "1", "2", "2", "3", "3",
    "4", "4", "5", "5", "6", "6", "7", "7",
    "8", "8", "9", "9", "A", "A", "B", "B",
    "C", "C", "D", "D", "E", "E", "F", "F">>
GoodKeyLower ==
  <<"0", "1", "2", "3", "4", "5", "6", "7",
    "8", "9", "a", "b", "c", "d", "e", "f",
    "f", "e", "d", "c", "b", "a", "9", "8",
    "7", "6", "5", "4", "3", "2", "1", "0">>

\* characters tried in a key: digits of both cases, a letter that is no digit,
\* a space and a tab, the signs and the x of a 0x prefix
KeyChars == {"0", "a", "F", "g", " ", "\t", "-", "+", "x"}
\* the bytes whose two characters are replaced: the first and the last
ChunkAt == {0, KeyLen - 1}

WithChunk(key, i, c1, c2) == [key EXCEPT ![2 * i + 1] = c1, ![2 * i + 2] = c2]

\* key strings handed to setCredentialsHex: the two good keys, a good key with
\* one byte replaced, and strings of the lengths 0, 30, 31, 33 and 34
HexInputs ==
  {GoodKeyUpper, GoodKeyLower}
    \cup {WithChunk(GoodKeyUpper, i, c1, c2) : i \in ChunkAt, c1 \in KeyChars, c2 \in KeyChars}
    \cup {<<>>, SubSeq(GoodKeyUpper, 1, 30), SubSeq(GoodKeyUpper, 1, 31),
          GoodKeyUpper \o <<"0">>, GoodKeyUpper \o <<"0", "0">>}
\* the pairs tried have an input of the list above for one key and a good key
\* for the other
HexArgs ==
  {<<appKeyHex, GoodKeyLower>> : appKeyHex \in HexInputs}
    \cup {<<GoodKeyUpper, nwkKeyHex>> : nwkKeyHex \in HexInputs}
Euis == {[joinEUI |-> 1, devEUI |-> 2]}

\* the host calls setCredentialsHex (lines 286-297): both conversions run,
\* whatever the first returns
SetCredentialsHex ==
  /\ \E args \in HexArgs, eui \in Euis :
       LET appKeyResult == hexStringToByteArray(args[1], appKey, KeyLen)
           nwkKeyResult == hexStringToByteArray(args[2], nwkKey, KeyLen)
       IN /\ Start("setCredentialsHex")
          /\ Done(appKeyResult.ok /\ nwkKeyResult.ok)
          /\ joinEUI' = eui.joinEUI
          /\ devEUI' = eui.devEUI
          /\ appKey' = appKeyResult.result
          /\ nwkKey' = nwkKeyResult.result
          /\ argAppKeyHex' = args[1]
          /\ argNwkKeyHex' = args[2]
  /\ ResetCallObs
  /\ UNCHANGED <<mgrVars, buildVars, cbVars, classVars, linkVars, timeVars>>

\* LoRaManager::setCredentials (lines 277-283) with the bytes of a good key
RawKeys == {[i \in 1..KeyLen |-> i], [i \in 1..KeyLen |-> 255]}
SetCredentials ==
  /\ \E eui \in Euis, rawAppKey \in RawKeys, rawNwkKey \in RawKeys :
       /\ Start("setCredentials")
       /\ Done(TRUE)
       /\ joinEUI' = eui.joinEUI
       /\ devEUI' = eui.devEUI
       /\ appKey' = rawAppKey
       /\ nwkKey' = rawNwkKey
  /\ ResetCallObs
  /\ UNCHANGED <<mgrVars, buildVars, cbVars, classVars, linkVars, timeVars, argAppKeyHex,
                 argNwkKeyHex>>

NextHex ==
  \/ SetCredentialsHex
  \/ SetCredentials

\* the object as constructed (lines 45-83); two calls of the host are followed
InitHex ==
  /\ radio = FALSE
  /\ node = FALSE
  /\ bandNum \in BandNums
  /\ subBand \in SubBands
  /\ isJoined = FALSE
  /\ lastErrorCode = ERR_NONE
  /\ consecutiveTransmitErrors = 0
  /\ deviceClass = DEVICE_CLASS_A
  /\ beaconState = BEACON_STATE_IDLE
  /\ continuousReception = FALSE
  /\ pc = "idle"
  /\ caller = "host"
  /\ jAttempt = 0
  /\ backoffDelay = 0
  /\ sAttempt = 0
  /\ nOps = MaxOps - 2
  /\ lastOp = "none"
  /\ lastRet = FALSE
  /\ preJoined = FALSE
  /\ preClass = DEVICE_CLASS_A
  /\ argData = FALSE
  /\ argLen = 0
  /\ argClass = "-"
  /\ argConfirmed = FALSE
  /\ confirmState = "none"
  /\ otaaCalls = 0
  /\ txCalls = 0
  /\ confirmCalls = 0
  /\ joinCalls = 0
  /\ joinWaits = <<>>
  /\ txWaits = <<>>
  /\ lastRssi = 0
  /\ lastSnr = 0
  /\ downlinkCallback = FALSE
  /\ beaconCallback = FALSE
  /\ now = 0
  /\ lastBeaconRxTime = 0
  /\ lastBeaconTimestamp = 0
  /\ pingSlotPeriodicity = 0
  /\ nextPingSlotTime = 0
  /\ downlinkCalls = 0
  /\ downlinkLen = 0
  /\ beaconCalls = 0
  /\ argPeriodicity = 0
  /\ joinEUI = 0
  /\ devEUI = 0
  /\ appKey = ZeroKey
  /\ nwkKey = ZeroKey
  /\ argAppKeyHex = <<>>
  /\ argNwkKeyHex = <<>>
  /\ noDownlink = NO_DOWNLINK
  /\ startTime = now
  /\ suspended = FALSE
  /\ outerObs = NoObs

SpecHex == InitHex /\ [][NextHex]_vars

\* a key string of exactly 32 hexadecimal digits
IsHexKey(hexString) ==
  /\ Len(hexString) = 2 * KeyLen
  /\ \A k \in 1..Len(hexString) : hexString[k] \in HexDigitChars

\* one byte as two upper-case hexadecimal digits, and a byte array as hex
HexDigitOf(v) ==
  <<"0", "1", "2", "3", "4", "5", "6", "7", "8", "9", "A", "B", "C", "D", "E", "F">>[v + 1]
ByteToHex(b) == <<HexDigitOf(b \div 16), HexDigitOf(b % 16)>>
RECURSIVE EncodeHex(_)
EncodeHex(bytes) ==
  IF bytes = <<>> THEN <<>> ELSE ByteToHex(Head(bytes)) \o EncodeHex(Tail(bytes))

\* a string with its letters a..f in upper case
UpperChar(c) ==
  CASE c = "a" -> "A" [] c = "b" -> "B" [] c = "c" -> "C"
    [] c = "d" -> "D" [] c = "e" -> "E" [] c = "f" -> "F"
    [] OTHER -> c
UpperCase(hexString) == [k \in 1..Len(hexString) |-> UpperChar(hexString[k])]

\* C25: setCredentialsHex returns true exactly when both key strings are 32
\* hexadecimal digits, and then each stored key, written as hex, is the
\* string it was given in upper case.
C25_HexDecodingExact ==
  Returned("setCredentialsHex") =>
    /\ lastRet <=> (IsHexKey(argAppKeyHex) /\ IsHexKey(argNwkKeyHex))
    /\ lastRet => /\ EncodeHex(appKey) = UpperCase(argAppKeyHex)
                  /\ EncodeHex(nwkKey) = UpperCase(argNwkKeyHex)

\* C31: a sendData call in which every inline joinNetwork succeeded (each
\* sent its confirmation uplink) returns with isJoined true, whether it
\* delivered the payload or not.
C31_RejoinedSessionKept ==
  (Returned("sendData") /\ joinCalls > 0 /\ confirmCalls = joinCalls) => isJoined

====
